---- MODULE Spec2Model ----
(***************************************************************************)
(* Model of nasim/env/environment.py: the NASimEnv orchestrator            *)
(* (reset / step / goal / reachability propagation) together with the      *)
(* Network, State and Action collaborators it drives.                      *)
(***************************************************************************)
EXTENDS Integers, Sequences, FiniteSets, TLC

\* ------------------------------------------------------------------------
\* Bounds of the scenarios explored
\* ------------------------------------------------------------------------
NumSubnets == 3
NumServices == 2

\* ------------------------------------------------------------------------
\* Scenario constants
\* ------------------------------------------------------------------------
INTERNET == 0

Subnets == 1..NumSubnets
Services == 1..NumServices
\* every subnet of the scenarios explored holds one host, host 0
AddressSpace == {<<s, 0>> : s \in Subnets}
NumHosts == NumSubnets

\* address_space as an ordered enumeration, 0-based position k
AddrAt(k) == <<k + 1, 0>>

\* Subnet graphs a scenario may define (unordered edges, INTERNET included)
ChainTopology == {{i, i + 1} : i \in 0..(NumSubnets - 1)}
StarTopology == {{INTERNET, 1}} \cup {{1, i} : i \in 2..NumSubnets}
Topologies == {ChainTopology, StarTopology}

\* A scenario: the subnet graph, the sensitive hosts and the firewall table
\* (services let in from INTERNET, services let through between two
\* connected internal subnets).
Scenarios ==
    [topology : Topologies,
     sensitive : SUBSET AddressSpace,
     fwInternet : {1..k : k \in Services},
     fwInternal : {{}, Services}]

\* Host data of the scenario
HostRuns(addr, v) == (v = 1) \/ (addr[1] % 2 = 1)
\* a services mapping (serviceId -> presence) is a set of pairs
HostServices(addr) == {<<v, HostRuns(addr, v)>> : v \in Services}
HostValue(sc, addr) == IF addr \in sc.sensitive THEN 10 ELSE 0
HostOS(addr) == "linux"
NoOS == "None"
NoServices == {}

\* ------------------------------------------------------------------------
\* Action and the action space
\* ------------------------------------------------------------------------
ScanAction(addr) ==
    [target |-> addr, cost |-> 0, prob |-> 100, service |-> 0, scan |-> TRUE]
ExploitAction(addr, v) ==
    [target |-> addr, cost |-> v, prob |-> IF v = 1 THEN 100 ELSE 50,
     service |-> v, scan |-> FALSE]

ActionsPerHost == 1 + NumServices
NumActions == NumHosts * ActionsPerHost

\* Action.load_action_space(scenario): for each address in order, the scan
\* followed by one exploit per service
action_space ==
    [i \in 1..NumActions |->
        LET k == (i - 1) \div ActionsPerHost
            j == (i - 1) % ActionsPerHost
        IN IF j = 0 THEN ScanAction(AddrAt(k)) ELSE ExploitAction(AddrAt(k), j)]

Actions == {action_space[i] : i \in 1..NumActions}

\* Python list indexing seq[i]: negative indices count from the end
PyInRange(seq, i) == (0 - Len(seq)) <= i /\ i < Len(seq)
PyIndex(seq, i) == IF i >= 0 THEN seq[i + 1] ELSE seq[Len(seq) + i + 1]

\* ------------------------------------------------------------------------
\* Network
\* ------------------------------------------------------------------------
SubnetsConnected(sc, a, b) == {a, b} \in sc.topology

TrafficPermitted(sc, src, dst, v) ==
    IF src = dst THEN TRUE
    ELSE IF ~SubnetsConnected(sc, src, dst) THEN FALSE
    ELSE IF src = INTERNET THEN v \in sc.fwInternet
    ELSE v \in sc.fwInternal

NetReachable(net, addr) == addr \in net.reachable
NetCompromised(net, addr) == addr \in net.compromised
SetReachable(net, addr) == [net EXCEPT !.reachable = @ \cup {addr}]
GetSensitiveHosts(sc) == sc.sensitive

\* Network.reset(): no host compromised, reachable set back to the hosts of
\* the subnets adjacent to INTERNET
NetworkReset(sc) ==
    [compromised |-> {},
     reachable |-> {a \in AddressSpace : SubnetsConnected(sc, INTERNET, a[1])}]

\* Network.perform_action(action): a scan always succeeds and reveals the
\* services and os; an exploit succeeds iff the host runs the service, then
\* compromises the host and yields its value the first time.
PerformAction(sc, net, action) ==
    LET t == action.target IN
    IF action.scan
    THEN [network |-> net, success |-> TRUE, value |-> 0,
          services |-> HostServices(t), os |-> HostOS(t)]
    ELSE IF HostRuns(t, action.service)
    THEN [network |-> [net EXCEPT !.compromised = @ \cup {t}],
          success |-> TRUE,
          value |-> IF t \in net.compromised THEN 0 ELSE HostValue(sc, t),
          services |-> {<<action.service, TRUE>>},
          os |-> NoOS]
    ELSE [network |-> net, success |-> FALSE, value |-> 0,
          services |-> NoServices, os |-> NoOS]

\* ------------------------------------------------------------------------
\* State
\* ------------------------------------------------------------------------
\* one row of the State for addr, read from the Network
StateRow(net, addr, services) ==
    [compromised |-> NetCompromised(net, addr),
     reachable |-> NetReachable(net, addr),
     services |-> services]

GenerateInitialMdpState(net) ==
    [a \in AddressSpace |-> StateRow(net, a, NoServices)]

\* State.update(addr): patch the row of addr from the Network
StateUpdate(st, net, addr) ==
    [st EXCEPT ![addr] = StateRow(net, addr, HostServices(addr))]

\* ------------------------------------------------------------------------
\* NASimEnv
\* ------------------------------------------------------------------------
\* self_action_space is the field self.action_space; state_ref is the identity
\* of the State object self.current_state refers to; mode and init_error are
\* the mode the constructor was called with and the error it raised
VARIABLES scenario, network, compromised_subnets, current_state, ret,
          self_action_space, state_ref, mode, init_error

vars == <<scenario, network, compromised_subnets, current_state, ret,
          self_action_space, state_ref, mode, init_error>>

\* the mutable fields of the environment, as one value
Env == [network |-> network,
        compromised_subnets |-> compromised_subnets,
        current_state |-> current_state,
        action_space |-> self_action_space]

GenerateInitialState(net) == GenerateInitialMdpState(net)

\* variant: a scan is filtered by the firewall like an exploit
ActionTrafficPermittedScansFiltered(sc, env, action) ==
    IF ~NetReachable(env.network, action.target) THEN FALSE
    ELSE \E src \in env.compromised_subnets :
            TrafficPermitted(sc, src, action.target[1], action.service)

ActionTrafficPermitted(sc, env, action) ==
    IF ~NetReachable(env.network, action.target) THEN FALSE
    ELSE IF action.scan THEN TRUE
    ELSE \E src \in env.compromised_subnets :
            TrafficPermitted(sc, src, action.target[1], action.service)

\* the loop of _update_reachable from position k of the address space on
RECURSIVE UpdateReachableFrom(_, _, _, _)
UpdateReachableFrom(sc, net, comp_subnet, k) ==
    IF k >= NumHosts THEN net
    ELSE LET addr == AddrAt(k)
             next == IF NetReachable(net, addr) THEN net
                     ELSE IF SubnetsConnected(sc, comp_subnet, addr[1])
                     THEN SetReachable(net, addr)
                     ELSE net
         IN UpdateReachableFrom(sc, next, comp_subnet, k + 1)

\* variant: the reachable set is rebuilt from the neighbours of the new subnet
UpdateReachableRebuilt(sc, net, compromised_host) ==
    [net EXCEPT !.reachable =
        {a \in AddressSpace : SubnetsConnected(sc, compromised_host[1], a[1])}]

\* the subnets joined to subnet s by a path of the subnet graph of at most n edges
RECURSIVE SubnetsWithin(_, _, _)
SubnetsWithin(sc, s, n) ==
    IF n = 0 THEN {s}
    ELSE LET near == SubnetsWithin(sc, s, n - 1)
         IN near \cup {b \in Subnets : \E a \in near : SubnetsConnected(sc, a, b)}

\* variant: reachability is closed over the whole subnet graph in one step
UpdateReachableClosure(sc, net, compromised_host) ==
    [net EXCEPT !.reachable =
        @ \cup {a \in AddressSpace :
                    a[1] \in SubnetsWithin(sc, compromised_host[1], NumSubnets)}]

UpdateReachable(sc, net, compromised_host) ==
    UpdateReachableFrom(sc, net, compromised_host[1], 0)

\* variant: the compromised-subnet set is overwritten by the new subnet
UpdateStateOverwritingSubnets(sc, env, action, success) ==
    IF ~action.scan /\ success
    THEN LET net == UpdateReachable(sc, env.network, action.target)
         IN [env EXCEPT
                !.network = net,
                !.compromised_subnets = {action.target[1]},
                !.current_state = StateUpdate(env.current_state, net, action.target)]
    ELSE env

\* variant: any successful action, a scan included, counts as a compromise
UpdateStateOnAnySuccess(sc, env, action, success) ==
    IF success
    THEN LET net == UpdateReachable(sc, env.network, action.target)
         IN [env EXCEPT
                !.network = net,
                !.compromised_subnets = @ \cup {action.target[1]},
                !.current_state = StateUpdate(env.current_state, net, action.target)]
    ELSE env

\* variant: any executed exploit counts as a compromise, failed or not
UpdateStateOnAnyExploit(sc, env, action, success) ==
    IF ~action.scan
    THEN LET net == UpdateReachable(sc, env.network, action.target)
         IN [env EXCEPT
                !.network = net,
                !.compromised_subnets = @ \cup {action.target[1]},
                !.current_state = StateUpdate(env.current_state, net, action.target)]
    ELSE env

UpdateState(sc, env, action, success) ==
    IF ~action.scan /\ success
    THEN LET net == UpdateReachable(sc, env.network, action.target)
         IN [env EXCEPT
                !.network = net,
                !.compromised_subnets = @ \cup {action.target[1]},
                !.current_state = StateUpdate(env.current_state, net, action.target)]
    ELSE env

\* variant: one compromised sensitive host is taken for the goal
IsGoalAnySensitive(sc, net) ==
    \E sensitive_m \in GetSensitiveHosts(sc) : NetCompromised(net, sensitive_m)

IsGoal(sc, net) ==
    \A sensitive_m \in GetSensitiveHosts(sc) : NetCompromised(net, sensitive_m)

\* values the random source may return, in hundredths (np.random.rand() < 1)
Draws == {50, 75}

\* integers around the two ends of the valid index range
IntArgs == {0 - NumActions - 1, 0 - NumActions, 0 - 1, 0, NumActions - 1, NumActions}

\* arguments step() may be called with: an integer, an Action object of the
\* action space (named by its position), or a value of another type
StepArgs ==
    [kind : {"int"}, val : IntArgs]
    \cup [kind : {"action"}, val : 0..(NumActions - 1)]
    \cup [kind : {"other"}, val : {0}]

NoArg == [kind |-> "none", val |-> 0]
NoAction == [target |-> <<0, 0>>, cost |-> 0, prob |-> 0, service |-> 0, scan |-> FALSE]
NoInfo == [keys |-> {}, success |-> FALSE, services |-> NoServices, os |-> NoOS]

\* what the last call returned or raised
Return(op, arg, error, action, path, drew, reward, done, info) ==
    [op |-> op, arg |-> arg, error |-> error, action |-> action, path |-> path,
     drew |-> drew, reward |-> reward, done |-> done, info |-> info]

\* variant: only the probability gate is applied
GateProbabilityOnly(sc, env, action, draw) ==
    IF draw > action.prob THEN "failed" ELSE "executed"

\* variant: the random draw is made before the two legality checks
GateProbabilityFirst(sc, env, action, draw) ==
    IF draw > action.prob THEN "failed"
    ELSE IF ~NetReachable(env.network, action.target) THEN "unreachable"
    ELSE IF ~ActionTrafficPermitted(sc, env, action) THEN "blocked"
    ELSE "executed"

\* the validation chain of step(): which return statement is reached
Gate(sc, env, action, draw) ==
    IF ~NetReachable(env.network, action.target) THEN "unreachable"
    ELSE IF ~ActionTrafficPermitted(sc, env, action) THEN "blocked"
    ELSE IF draw > action.prob THEN "failed"
    ELSE "executed"

RejectedInfo == [keys |-> {"success", "services"}, success |-> FALSE,
                 services |-> NoServices, os |-> NoOS]

\* variant: a rejected step is free of charge
RejectedFreeOfCharge(env, arg, action, path) ==
    [env |-> env,
     ret |-> Return("step", arg, "none", action, path, path = "failed",
                    0, FALSE, RejectedInfo)]

\* the three early returns of step()
Rejected(env, arg, action, path) ==
    [env |-> env,
     ret |-> Return("step", arg, "none", action, path, path = "failed",
                    0 - action.cost, FALSE, RejectedInfo)]

\* variant: the goal is tested before the action is performed
ExecutedGoalFirst(sc, env, arg, action) ==
    LET done == IsGoal(sc, env.network)
        res == PerformAction(sc, env.network, action)
        env1 == UpdateState(sc, [env EXCEPT !.network = res.network], action, res.success)
        reward == res.value - action.cost
    IN [env |-> env1,
        ret |-> Return("step", arg, "none", action, "executed", TRUE, reward, done,
                       [keys |-> {"success", "services", "os"}, success |-> res.success,
                        services |-> res.services, os |-> res.os])]

\* variant: the info of an executed step has no os entry
ExecutedWithoutOs(sc, env, arg, action) ==
    LET res == PerformAction(sc, env.network, action)
        env1 == UpdateState(sc, [env EXCEPT !.network = res.network], action, res.success)
        done == IsGoal(sc, env1.network)
        reward == res.value - action.cost
    IN [env |-> env1,
        ret |-> Return("step", arg, "none", action, "executed", TRUE, reward, done,
                       [keys |-> {"success", "services"}, success |-> res.success,
                        services |-> res.services, os |-> NoOS])]

\* variant: done is reported only when the action itself succeeded
ExecutedDoneNeedsSuccess(sc, env, arg, action) ==
    LET res == PerformAction(sc, env.network, action)
        env1 == UpdateState(sc, [env EXCEPT !.network = res.network], action, res.success)
        done == res.success /\ IsGoal(sc, env1.network)
        reward == res.value - action.cost
    IN [env |-> env1,
        ret |-> Return("step", arg, "none", action, "executed", TRUE, reward, done,
                       [keys |-> {"success", "services", "os"}, success |-> res.success,
                        services |-> res.services, os |-> res.os])]

\* the tail of step(): perform, update, goal test, reward
Executed(sc, env, arg, action) ==
    LET res == PerformAction(sc, env.network, action)
        env1 == UpdateState(sc, [env EXCEPT !.network = res.network], action, res.success)
        done == IsGoal(sc, env1.network)
        reward == res.value - action.cost
    IN [env |-> env1,
        ret |-> Return("step", arg, "none", action, "executed", TRUE, reward, done,
                       [keys |-> {"success", "services", "os"}, success |-> res.success,
                        services |-> res.services, os |-> res.os])]

Raised(env, arg, error) ==
    [env |-> env,
     ret |-> Return("step", arg, error, NoAction, "raised", FALSE, 0, FALSE, NoInfo)]

\* the Action step() works with: an int is looked up in self.action_space,
\* an Action object is taken as passed
ResolveAction(env, arg) ==
    IF arg.kind = "int" THEN PyIndex(env.action_space, arg.val)
    ELSE action_space[arg.val + 1]

\* variant: the chosen action is taken out of the action space (list.pop)
StepResultPoppingAction(sc, env, arg, draw) ==
    IF arg.kind \notin {"action", "int"} THEN Raised(env, arg, "AssertionError")
    ELSE IF arg.kind = "int" /\ ~PyInRange(env.action_space, arg.val)
    THEN Raised(env, arg, "IndexError")
    ELSE LET action == ResolveAction(env, arg)
             path == Gate(sc, env, action, draw)
             at == IF arg.val >= 0 THEN arg.val + 1
                   ELSE Len(env.action_space) + arg.val + 1
             popped == IF arg.kind = "int"
                       THEN [env EXCEPT !.action_space =
                                SubSeq(@, 1, at - 1) \o SubSeq(@, at + 1, Len(@))]
                       ELSE env
         IN IF path = "executed" THEN Executed(sc, popped, arg, action)
            ELSE Rejected(popped, arg, action, path)

\* step(action) as a function of the environment, the argument and the draw
StepResult(sc, env, arg, draw) ==
    IF arg.kind \notin {"action", "int"} THEN Raised(env, arg, "AssertionError")
    ELSE IF arg.kind = "int" /\ ~PyInRange(env.action_space, arg.val)
    THEN Raised(env, arg, "IndexError")
    ELSE LET action == ResolveAction(env, arg)
             path == Gate(sc, env, action, draw)
         IN IF path = "executed" THEN Executed(sc, env, arg, action)
            ELSE Rejected(env, arg, action, path)

\* the class attribute env_modes and the modes a caller may ask for
env_modes == {"MDP"}
Modes == {"MDP", "POMDP", "TURN_BASED"}

\* what _generate_initial_state raises for the mode
GenerateInitialStateError(m) ==
    IF m = "MDP" THEN "none"
    ELSE IF m = "POMDP" THEN "NotImplementedError"
    ELSE "NotImplementedError"

\* what NASimEnv(scenario, mode) raises: the assert on the mode comes first
ConstructorError(m) ==
    IF m \notin env_modes THEN "AssertionError"
    ELSE GenerateInitialStateError(m)

\* the state after the call NASimEnv(sc, m): an environment that was reset, or
\* no environment at all when the constructor raised
Constructed(sc, m) ==
    /\ scenario = sc
    /\ mode = m
    /\ init_error = ConstructorError(m)
    /\ IF ConstructorError(m) = "none"
       THEN /\ network = NetworkReset(sc)
            /\ self_action_space = action_space
            /\ current_state = GenerateInitialState(NetworkReset(sc))
            /\ state_ref = 1
            /\ compromised_subnets = {INTERNET}
            /\ ret = Return("reset", NoArg, "none", NoAction, "none", FALSE, 0, FALSE, NoInfo)
       ELSE /\ network = [compromised |-> {}, reachable |-> {}]
            /\ self_action_space = << >>
            /\ current_state = << >>
            /\ state_ref = 0
            /\ compromised_subnets = {}
            /\ ret = Return("init", NoArg, ConstructorError(m), NoAction, "raised",
                            FALSE, 0, FALSE, NoInfo)

Init == \E sc \in Scenarios : Constructed(sc, "MDP")

InitAnyMode == \E sc \in Scenarios, m \in Modes : Constructed(sc, m)

\* variant: reset() builds a new State object and returns that one
ResetRegeneratingState ==
    /\ init_error = "none"
    /\ compromised_subnets' = {INTERNET}
    /\ network' = NetworkReset(scenario)
    /\ current_state' = GenerateInitialState(NetworkReset(scenario))
    /\ state_ref' = (state_ref % 2) + 1
    /\ ret' = Return("reset", NoArg, "none", NoAction, "none", FALSE, 0, FALSE, NoInfo)
    /\ UNCHANGED <<scenario, self_action_space, mode, init_error>>

\* reset() returns self.current_state, the object state_ref names
Reset ==
    /\ init_error = "none"
    /\ compromised_subnets' = {INTERNET}
    /\ network' = NetworkReset(scenario)
    /\ ret' = Return("reset", NoArg, "none", NoAction, "none", FALSE, 0, FALSE, NoInfo)
    /\ UNCHANGED <<scenario, current_state, self_action_space, state_ref, mode, init_error>>

Step(arg, draw) ==
    /\ init_error = "none"
    /\ \E r \in {StepResult(scenario, Env, arg, draw)} :
        /\ network' = r.env.network
        /\ compromised_subnets' = r.env.compromised_subnets
        /\ current_state' = r.env.current_state
        /\ self_action_space' = r.env.action_space
        /\ ret' = r.ret
    /\ UNCHANGED <<scenario, state_ref, mode, init_error>>

Next ==
    \/ Reset
    \/ \E arg \in StepArgs, draw \in Draws : Step(arg, draw)

Spec == Init /\ [][Next]_vars

\* the same environment, the constructor called with any mode
SpecAnyMode == InitAnyMode /\ [][Next]_vars

\* ------------------------------------------------------------------------
\* Properties
\* ------------------------------------------------------------------------
RejectedPaths == {"unreachable", "blocked", "failed"}
StepReturned == ret.op = "step" /\ ret.error = "none"
EnvUnchanged == UNCHANGED <<network, compromised_subnets, current_state>>
InitiallyReachable(a) == SubnetsConnected(scenario, INTERNET, a[1])
AllSensitiveCompromised == scenario.sensitive \subseteq network.compromised

\* C1: a rejected step (unreachable target, blocked traffic or failed draw)
\* returns reward -action.cost and done = false and leaves the Network, the
\* compromised-subnet set and the State unchanged.
C1_RejectedStepOnlyChargesCost ==
    [][(ret'.op = "step" /\ ret'.path \in RejectedPaths)
        => /\ ret'.reward = 0 - ret'.action.cost
           /\ ret'.done = FALSE
           /\ EnvUnchanged]_vars

\* a blocked exploit with a positive cost, rejected after a host was compromised
C1_Witness ==
    /\ StepReturned /\ ret.path = "blocked"
    /\ ret.action.cost > 0 /\ ret.reward = 0 - ret.action.cost
    /\ network.compromised # {}

\* C2 (as stated): for every step, accepted or rejected, done is true iff
\* every sensitive host is compromised once the step has finished.
C2_DoneIffGoalOnEveryStep ==
    StepReturned => (ret.done <=> AllSensitiveCompromised)

\* C2 (amended): an executed step returns done = true iff every sensitive
\* host is compromised after it; a rejected step returns done = false
\* whatever the Network holds.
C2_DoneIffExecutedAndGoal ==
    StepReturned => (ret.done <=> (ret.path = "executed" /\ AllSensitiveCompromised))

\* an executed step that reached the goal of a scenario with sensitive hosts
C2_Witness ==
    /\ StepReturned /\ ret.path = "executed" /\ ret.done
    /\ scenario.sensitive # {}

\* C3: the State returned by reset() encodes the initial state: no host
\* compromised, only the hosts of subnets adjacent to INTERNET reachable, no
\* service information.
C3_ResetReturnsInitialState ==
    ret.op = "reset" =>
        \A a \in AddressSpace :
            /\ ~current_state[a].compromised
            /\ current_state[a].reachable = InitiallyReachable(a)
            /\ current_state[a].services = NoServices

\* C4: after every step() and reset() the State agrees with the Network on
\* the compromised and the reachable flag of every address.
C4_StateAgreesWithNetwork ==
    ret.error = "none" =>
        \A a \in AddressSpace :
            /\ current_state[a].compromised = NetCompromised(network, a)
            /\ current_state[a].reachable = NetReachable(network, a)

\* C5: every compromised address is reachable.
C5_CompromisedImpliesReachable ==
    \A a \in AddressSpace : NetCompromised(network, a) => NetReachable(network, a)

\* a compromised host that was not reachable at the start of the episode
C5_Witness ==
    \E a \in network.compromised : ~InitiallyReachable(a)

\* C6: no step removes an address from the reachable set.
C6_ReachableMonotone ==
    [][ret'.op = "step" => network.reachable \subseteq network'.reachable]_vars

\* a step after which the reachable set holds more than the initial frontier
C6_Witness ==
    /\ StepReturned /\ ret.path = "executed" /\ ~ret.action.scan /\ ret.info.success
    /\ \E a \in network.reachable : ~InitiallyReachable(a)

\* C7: INTERNET is a member of the compromised-subnet set in every state.
C7_InternetAlwaysCompromised ==
    INTERNET \in compromised_subnets

\* two subnets were added to the set by successful exploits
C7_Witness ==
    /\ StepReturned
    /\ Cardinality(compromised_subnets \ {INTERNET}) >= 2

\* C8 (as stated): the info of every step holds success, services and os.
C8_InfoAlwaysHasThreeEntries ==
    StepReturned => {"success", "services", "os"} \subseteq ret.info.keys

\* C8 (amended): the info of an executed step holds success, services and
\* os; the info of a rejected step holds only success = false and an empty
\* services mapping.
C8_InfoEntriesByPath ==
    StepReturned =>
        IF ret.path = "executed"
        THEN ret.info.keys = {"success", "services", "os"}
        ELSE /\ ret.info.keys = {"success", "services"}
             /\ ret.info.success = FALSE
             /\ ret.info.services = NoServices

\* an executed exploit whose info carries the absent-marker for os
C8_Witness ==
    /\ StepReturned /\ ret.path = "executed" /\ ~ret.action.scan
    /\ "os" \in ret.info.keys /\ ret.info.os = NoOS

\* an argument that is neither an Action nor an index in 0..len(action_space)-1
InvalidArg(arg) ==
    \/ arg.kind = "other"
    \/ arg.kind = "int" /\ ~(0 <= arg.val /\ arg.val < NumActions)

\* C9: step() with an argument that is neither an Action nor a valid index
\* (negative integers included) raises and leaves the environment unchanged.
C9_InvalidArgumentRaises ==
    [][(ret'.op = "step" /\ InvalidArg(ret'.arg))
        => (ret'.error # "none" /\ EnvUnchanged)]_vars

\* C10: the successful exploit that compromises the last uncompromised
\* sensitive host returns done = true and reward = value - cost in that
\* step; an executed scan before it returns reward -cost and done = false.
C10_GoalTestedAfterMutation ==
    [][(ret'.op = "step" /\ ret'.path = "executed")
        => LET a == ret'.action
               pending == scenario.sensitive \ network.compromised
           IN /\ (~a.scan /\ ret'.info.success /\ pending = {a.target})
                    => /\ ret'.done
                       /\ ret'.reward = HostValue(scenario, a.target) - a.cost
              /\ (a.scan /\ pending # {})
                    => /\ ~ret'.done
                       /\ ret'.reward = 0 - a.cost]_vars

\* the exploit of cost 1 on the sensitive host of value 10 ended the episode
C10_Witness ==
    /\ StepReturned /\ ret.path = "executed" /\ ret.done
    /\ ret.action.target \in scenario.sensitive
    /\ ret.action.cost = 1 /\ ret.reward = 9

\* C11: step() and reset() never change the action space: every index gives
\* the Action the constructor loaded and the length stays the same.
C11_ActionSpaceStable ==
    /\ Len(self_action_space) = NumActions
    /\ \A i \in 1..NumActions : self_action_space[i] = action_space[i]

\* an exploit named by an integer index was executed after a host had
\* already been compromised
C11_Witness ==
    /\ StepReturned /\ ret.arg.kind = "int" /\ ret.path = "executed"
    /\ ~ret.action.scan /\ ret.info.success
    /\ Cardinality(network.compromised) >= 2

\* C12: the constructor called with the POMDP mode raises an
\* unimplemented-feature error that differs from the error raised for a mode
\* outside the supported set, and no environment is produced.
C12_PomdpErrorIsDistinct ==
    mode = "POMDP" =>
        /\ init_error = "NotImplementedError"
        /\ init_error # ConstructorError("TURN_BASED")
        /\ state_ref = 0

\* the subnet the last action aimed at
TargetSubnet(r) == r.action.target[1]
SuccessfulExploit(r) ==
    r.op = "step" /\ r.path = "executed" /\ ~r.action.scan /\ r.info.success

\* C13: a successful exploit on a host of subnet S makes reachable exactly the
\* unreachable addresses whose subnet is joined to S by an edge of the subnet
\* graph, whatever the firewall table holds.
C13_OneShotPropagation ==
    [][SuccessfulExploit(ret')
        => network'.reachable \ network.reachable =
              {a \in AddressSpace \ network.reachable :
                  {TargetSubnet(ret'), a[1]} \in scenario.topology}]_vars

\* chain INTERNET-1-2-3 with a firewall that lets nothing through between
\* internal subnets: after the exploit in subnet 1, subnet 2 is reachable and
\* subnet 3, two edges away, is not
C13_Witness ==
    /\ SuccessfulExploit(ret) /\ TargetSubnet(ret) = 1
    /\ scenario.topology = ChainTopology /\ scenario.fwInternal = {}
    /\ <<2, 0>> \in network.reachable
    /\ <<3, 0>> \notin network.reachable

\* some compromised subnet may send the service of action a to its target
SomeSourcePermitted(a, subnets) ==
    \E src \in subnets :
        \/ src = a.target[1]
        \/ /\ {src, a.target[1]} \in scenario.topology
           /\ a.service \in (IF src = INTERNET THEN scenario.fwInternet
                              ELSE scenario.fwInternal)

\* C14: on a reachable target the firewall gate passes iff the action is a
\* scan or some subnet of the compromised-subnet set is permitted to send the
\* action's service to the target's subnet.
C14_FirewallGate ==
    [][(ret'.op = "step" /\ ret'.error = "none"
            /\ ret'.action.target \in network.reachable)
        => ((ret'.path # "blocked")
                <=> (ret'.action.scan
                        \/ SomeSourcePermitted(ret'.action, compromised_subnets)))]_vars

\* a scan was executed on a target no compromised subnet may send any
\* service to
C14_Witness ==
    /\ StepReturned /\ ret.action.scan /\ ret.path = "executed"
    /\ \A v \in Services :
          ~SomeSourcePermitted(ExploitAction(ret.action.target, v), compromised_subnets)

\* C15: an executed scan or an executed exploit that did not succeed leaves
\* the compromised-subnet set, the reachable set and the State unchanged; a
\* successful exploit adds exactly the target's subnet to the set.
C15_OnlySuccessfulExploitUpdates ==
    [][(ret'.op = "step" /\ ret'.path = "executed")
        => IF ~ret'.action.scan /\ ret'.info.success
           THEN compromised_subnets' = compromised_subnets \cup {TargetSubnet(ret')}
           ELSE /\ compromised_subnets' = compromised_subnets
                /\ network'.reachable = network.reachable
                /\ current_state' = current_state]_vars

\* an exploit was executed and Network.perform_action reported no success
C15_Witness ==
    /\ StepReturned /\ ret.path = "executed"
    /\ ~ret.action.scan /\ ~ret.info.success

C17_StateObjectNeverReplaced ==
    [][state_ref' = state_ref]_vars

\* a reset() after the State was patched returned the patched object
C17_Witness ==
    /\ ret.op = "reset" /\ state_ref = 1
    /\ \E a \in AddressSpace : current_state[a].compromised

\* C18: the compromised-subnet set is INTERNET plus the subnets of the hosts
\* compromised in the Network, so each of its subnets but INTERNET holds a
\* compromised host.
C18_CompromisedSubnetsHoldCompromisedHost ==
    compromised_subnets = {INTERNET} \cup {a[1] : a \in network.compromised}

\* an exploit failed while a subnet was in the set
C18_Witness ==
    /\ StepReturned /\ ret.path = "executed"
    /\ ~ret.action.scan /\ ~ret.info.success
    /\ compromised_subnets # {INTERNET}

\* C19: a step returns done = true only when every sensitive host is
\* compromised, no step undoes that, and from then on every executed step
\* returns done = true; such steps still run against the Network.
C19_GoalPersists ==
    [][ret'.op = "step"
        => /\ (ret.op = "step" /\ ret.done) => AllSensitiveCompromised
           /\ AllSensitiveCompromised
                => /\ AllSensitiveCompromised'
                   /\ (ret'.path = "executed") => ret'.done]_vars

\* after the goal a host that is not sensitive was exploited: the step was
\* executed, returned done = true and its subnet is in the set
C19_Witness ==
    /\ SuccessfulExploit(ret) /\ ret.done
    /\ scenario.sensitive # {}
    /\ ret.action.target \notin scenario.sensitive
    /\ TargetSubnet(ret) \in compromised_subnets
    /\ \E a \in network.reachable : ~InitiallyReachable(a)

\* action a passes the reachability check and the firewall gate
Legal(a, reachable, subnets) ==
    /\ a.target \in reachable
    /\ a.scan \/ SomeSourcePermitted(a, subnets)

\* C20: an action that passes the reachability check and the firewall gate
\* keeps passing them after every step of the episode; after reset() only
\* the actions that pass them from INTERNET alone do.  (A transition that
\* leaves both sets as they were keeps the legality of every action.)
C20_LegalityMonotone ==
    [][(network'.reachable # network.reachable
            \/ compromised_subnets' # compromised_subnets)
        => \A a \in Actions :
            /\ (ret'.op = "step" /\ Legal(a, network.reachable, compromised_subnets))
                  => Legal(a, network'.reachable, compromised_subnets')
            /\ (ret'.op = "reset")
                  => (Legal(a, network'.reachable, compromised_subnets')
                        <=> (InitiallyReachable(a.target)
                                /\ (a.scan \/ SomeSourcePermitted(a, {INTERNET}))))]_vars

\* an exploit is legal that INTERNET alone is not permitted to send
C20_Witness ==
    \E a \in Actions :
        /\ ~a.scan
        /\ Legal(a, network.reachable, compromised_subnets)
        /\ ~SomeSourcePermitted(a, {INTERNET})
        /\ ret.op = "step"

====
